---- MODULE Spec2Model ----
(***************************************************************************)
(* State-machine model of main_bot.py: the draft run (state load, theme /  *)
(* tech selection, generate + review loop, draft save) and the publish run *)
(* (draft load, identity lookup, image upload and poll, post creation,     *)
(* rotation-state commit and cleanup).                                     *)
(*                                                                         *)
(* A run is split only where the program waits for an external answer      *)
(* (generation API, editor, LinkedIn endpoints); everything the handler    *)
(* does between two answers is one action.                                 *)
(***************************************************************************)
EXTENDS Integers, Sequences, FiniteSets, TLC

(***************************************************************************)
(* Bounds of the model (not program constants).                            *)
(***************************************************************************)
\* posts the remote feed may receive in a behaviour of Spec
MaxPublishes == 2
\* posts the remote feed may receive in a behaviour of SpecCycle
MaxCyclePosts == 90
\* posts the remote feed may receive in a behaviour of SpecSelect
MaxSelectPosts == 5
\* random.choice of the theme is explored over the first MaxPick eligible themes in SpecSelect
MaxPick == 2
\* image files the folder may hold
MaxImages == 1
\* longest last_themes of the RotationStates SpecSelector starts from
MaxThemeHistory == 4
\* longest last_tech of the RotationStates SpecSelector starts from
MaxTechHistory == 3

(***************************************************************************)
(* Program constants.                                                      *)
(***************************************************************************)
\* for attempt in range(2)
MaxAttempts == 2
\* len(text) > 2800
PostLimit == 2800
\* text[:2797]
TruncKeep == 2797
\* deadline = time.time() + 60
PollDeadline == 60
\* time.sleep(2)
PollSleep == 2
\* requests.get(..., timeout=15)
PollRequestTimeout == 15
\* last_themes[-3:]
ThemeWindow == 3
\* last_tech[-2:]
TechWindow == 2
\* state["last_themes"][-5:], state["last_tech"][-5:]
HistoryKeep == 5
\* state["previous_lessons"][-5:]
LessonWindow == 5
\* resp.status_code == 201
HttpCreated == 201

ACTS ==
  << [name |-> "ACT I",   max_episodes |-> 8],
     [name |-> "ACT II",  max_episodes |-> 10],
     [name |-> "ACT III", max_episodes |-> 8],
     [name |-> "ACT IV",  max_episodes |-> 6],
     [name |-> "ACT V",   max_episodes |-> 6],
     [name |-> "ACT VI",  max_episodes |-> 6] >>

TECH_FOCUS_AREAS ==
  [ distributed_data |-> <<"Cassandra", "CQRS & Dual Writes", "Schema Evolution">>,
    caching          |-> <<"Redis Locking", "Cache Invalidation">>,
    async            |-> <<"Kafka Consumer Lag", "At-Least-Once Delivery">>,
    infra            |-> <<"Autoscaling", "Thread Pools">>,
    observability    |-> <<"Misleading Metrics", "Alert Fatigue">>,
    ownership        |-> <<"Shared Services", "Platform vs Product">> ]

THEMES ==
  << [type |-> "THE ARCHITECTURAL TRAP", tone |-> "Humble, analytical",
      allowed_tech |-> <<"distributed_data", "caching", "async">>],
     [type |-> "THE HUMAN ALGORITHM", tone |-> "Reflective, empathetic",
      allowed_tech |-> <<"ownership", "async", "observability">>],
     [type |-> "THE CRASH", tone |-> "Calm urgency",
      allowed_tech |-> <<"infra", "async", "caching">>],
     [type |-> "THE FALSE FIX", tone |-> "Analytical, corrective",
      allowed_tech |-> <<"caching", "infra">>],
     [type |-> "THE METRIC LIE", tone |-> "Skeptical, reflective",
      allowed_tech |-> <<"observability">>],
     [type |-> "THE OWNERSHIP GAP", tone |-> "Leadership-focused",
      allowed_tech |-> <<"ownership">>] >>

(***************************************************************************)
(* Sequence helpers: Python slices and membership.                         *)
(***************************************************************************)
Min(a, b) == IF a < b THEN a ELSE b

\* s[-n:]
LastN(s, n) == IF Len(s) <= n THEN s ELSE SubSeq(s, Len(s) - n + 1, Len(s))

\* x in s
InSeq(x, s) == \E i \in DOMAIN s : s[i] = x

(***************************************************************************)
(* Text.  A string is modelled as pad copies of an ordinary letter         *)
(* followed by the symbols of body, one symbol per character ("Hook:" is   *)
(* the one symbol Label).  The pad stands for a long plain story prefix:   *)
(* it holds no bracket, no asterisk, no newline and no whitespace, so the  *)
(* regular expressions of clean_text act on body alone.                    *)
(***************************************************************************)
Newline == "\n"
Space == " "
Label == "Hook:"
Ellipsis == <<".", ".", ".">>
\* "#backend #engineering #software #java", the line the prompt asks the post to end with
Hashtags == <<"#">>

Txt(pad, body) == [pad |-> pad, body |-> body]
EmptyText == Txt(0, <<>>)
TLen(t) == t.pad + Len(t.body)

\* text[:n]
Take(t, n) ==
  IF n <= t.pad THEN Txt(n, <<>>)
  ELSE Txt(t.pad, SubSeq(t.body, 1, Min(n - t.pad, Len(t.body))))

\* text.endswith(suffix)
EndsWith(t, suffix) ==
  /\ Len(t.body) >= Len(suffix)
  /\ SubSeq(t.body, Len(t.body) - Len(suffix) + 1, Len(t.body)) = suffix

IsOpen(c) == c \in {"(", "["}
IsClose(c) == c \in {")", "]"}
IsSpace(c) == c \in {Space, Newline}

\* first closing bracket at or after j on the same line, 0 when there is none
RECURSIVE FindClose(_, _)
FindClose(s, j) ==
  IF j > Len(s) \/ s[j] = Newline THEN 0
  ELSE IF IsClose(s[j]) THEN j
  ELSE FindClose(s, j + 1)

\* re.sub(r'[\(\[].*?[\)\]]', '', text)
RECURSIVE StripBrackets(_, _)
StripBrackets(s, i) ==
  IF i > Len(s) THEN <<>>
  ELSE IF IsOpen(s[i]) /\ FindClose(s, i + 1) > 0
       THEN StripBrackets(s, FindClose(s, i + 1) + 1)
       ELSE <<s[i]>> \o StripBrackets(s, i + 1)

\* re.sub(r'(?i)^(Hook|Lesson|Moral|Reflection):', '', text, flags=re.MULTILINE)
RECURSIVE StripLabels(_, _, _)
StripLabels(s, i, atStart) ==
  IF i > Len(s) THEN <<>>
  ELSE IF s[i] = Label /\ (IF i = 1 THEN atStart ELSE s[i - 1] = Newline)
       THEN StripLabels(s, i + 1, atStart)
       ELSE <<s[i]>> \o StripLabels(s, i + 1, atStart)

\* text.replace('*', '')
StripStars(s) == SelectSeq(s, LAMBDA c : c # "*")

RECURSIVE LStrip(_)
LStrip(s) == IF s # <<>> /\ IsSpace(Head(s)) THEN LStrip(Tail(s)) ELSE s

RECURSIVE RStrip(_)
RStrip(s) ==
  IF s # <<>> /\ IsSpace(s[Len(s)]) THEN RStrip(SubSeq(s, 1, Len(s) - 1)) ELSE s

clean_text(t) ==
  IF TLen(t) = 0 THEN EmptyText
  ELSE LET b1 == StripBrackets(t.body, 1)
           b2 == StripLabels(b1, 1, t.pad = 0)
           b3 == StripStars(b2)
           b4 == RStrip(IF t.pad = 0 THEN LStrip(b3) ELSE b3)
       IN  Txt(t.pad, b4)

(***************************************************************************)
(* Persisted documents.  A file is <<>> when absent and <<document>> when  *)
(* present; a missing key of a JSON document is the value Absent.          *)
(***************************************************************************)
NoFile == <<>>
File(doc) == <<doc>>
Absent == "<absent>"

DefaultState ==
  [act_index |-> 0, episode |-> 1, previous_lessons |-> <<>>,
   last_themes |-> <<>>, last_tech |-> <<>>]

\* load_json(STATE_FILE) followed by "if not state: state = {...}"
LoadState(file) == IF file = NoFile THEN DefaultState ELSE file[1]

(***************************************************************************)
(* SELECTION LOGIC                                                         *)
(***************************************************************************)
\* random.choice(s), explored over the first picks entries
Choices(s, picks) == {s[i] : i \in 1..Min(picks, Len(s))}

\* faulty variant of EligibleThemes: the window is one entry short
EligibleThemesShortWindow(state) ==
  LET recent == LastN(state.last_themes, ThemeWindow - 1)
      eligible == SelectSeq(THEMES, LAMBDA t : ~InSeq(t.type, recent))
  IN  IF eligible = <<>> THEN THEMES ELSE eligible

\* faulty variant of EligibleThemes: the recent themes are not filtered out
EligibleThemesAll(state) == THEMES

EligibleThemes(state) ==
  LET recent == LastN(state.last_themes, ThemeWindow)
      eligible == SelectSeq(THEMES, LAMBDA t : ~InSeq(t.type, recent))
  IN  IF eligible = <<>> THEN THEMES ELSE eligible

RECURSIVE TechPoolOf(_)
TechPoolOf(categories) ==
  IF categories = <<>> THEN <<>>
  ELSE TECH_FOCUS_AREAS[Head(categories)] \o TechPoolOf(Tail(categories))

\* faulty variant of EligibleTech: the recent topics are not filtered out
EligibleTechUnfiltered(state, theme) == TechPoolOf(theme.allowed_tech)

EligibleTech(state, theme) ==
  LET tech_pool == TechPoolOf(theme.allowed_tech)
      recent == LastN(state.last_tech, TechWindow)
      final_tech_pool == SelectSeq(tech_pool, LAMBDA t : ~InSeq(t, recent))
  IN  IF final_tech_pool = <<>> THEN tech_pool ELSE final_tech_pool

\* the (theme, tech) pairs select_theme_and_tech(state) may return
select_theme_and_tech(state, picks, techPicks) ==
  UNION {{<<th, tc>> : tc \in Choices(EligibleTech(state, th), techPicks)} :
           th \in Choices(EligibleThemes(state), picks)}

(***************************************************************************)
(* Answers of the external collaborators (the inputs of the runs).         *)
(***************************************************************************)
\* a generation answer: parsed is FALSE when the call or json.loads raises,
\* has_text is FALSE when the document has no "post_text" key
Doc(text, lesson) ==
  [parsed |-> TRUE, has_text |-> TRUE, post_text |-> text, lesson_extracted |-> lesson]
BadResponse ==
  [parsed |-> FALSE, has_text |-> FALSE, post_text |-> EmptyText, lesson_extracted |-> Absent]
NoTextResponse ==
  [parsed |-> TRUE, has_text |-> FALSE, post_text |-> EmptyText, lesson_extracted |-> "l1"]
NoContent == BadResponse

\* generated stories: with markup, with other markup, and longer than the post limit
StoryA == Txt(0, <<Label, "*", "a", "(", "b", ")", "#">>)
StoryB == Txt(0, <<"b", "[", "a", ")", Space>>)
StoryLong == Txt(PostLimit - 1, <<"*", "a", "#">>)

Responses ==
  { BadResponse, NoTextResponse,
    Doc(StoryA, "l1"), Doc(StoryB, "l2"), Doc(StoryB, Absent), Doc(StoryLong, "l1") }
CycleResponses == { Doc(StoryA, "l1") }

\* the editor's answer after .strip(); EditorRaised when the call raises
EditorRaised == "<exception>"
EditorAnswers == {"PASS_9_PLUS", "FAIL", "PASS", EditorRaised}

\* the status answer of the image endpoint; PollRaised when the request raises
PollRaised == "<exception>"
PollAnswers == {"AVAILABLE", "FAILED", "ERROR", "PROCESSING", PollRaised}

\* the answer of the post-creation call: a status code, or raised when
\* requests.post raises (timeout, connection error)
Answer(code) == [raised |-> FALSE, status_code |-> code]
Raised == [raised |-> TRUE, status_code |-> 0]
NoAnswer == [raised |-> FALSE, status_code |-> 0]
PostAnswers == {Answer(HttpCreated), Answer(403), Answer(500), Raised}

NoUrn == ""
NoPath == ""
ImageNames == {"images/a.png", "images/b.jpg"}

(***************************************************************************)
(* State.                                                                  *)
(***************************************************************************)
VARIABLES
  stateFile,    \* story_state.json
  draftFile,    \* current_draft.json
  images,       \* the image files of the images folder
  posted,       \* posts created on the remote feed
  draftPosts,   \* posts created from the draft that current_draft.json holds
  pc,           \* position of the running process ("idle" between runs)
  outcome,      \* how the run ended: "returned", "exit1", "raised"
  before,       \* the files as they were when the run started
  \* locals of run_draft_mode / generate_with_review
  theme, tech, prompt, attempt, content, post, responses, verdicts,
  \* locals of run_publish_mode / post_to_linkedin
  draft, urn, image_path, media_urn, status, elapsed, answer, commentary, image_asset,
  postCalls

files == <<stateFile, draftFile, images>>
draftLocals == <<theme, tech, prompt, attempt, content, post, responses, verdicts>>
publishLocals ==
  <<draft, urn, image_path, media_urn, status, elapsed, answer, commentary, image_asset,
    postCalls>>
vars == <<stateFile, draftFile, images, posted, draftPosts, pc, outcome, before, draftLocals, publishLocals>>

Snapshot == [stateFile |-> stateFile, draftFile |-> draftFile, images |-> images]
NoSnapshot == [stateFile |-> NoFile, draftFile |-> NoFile, images |-> {}]
NoTheme == [type |-> "", tone |-> "", allowed_tech |-> <<>>]
NoPrompt ==
  [act |-> "", episode |-> 0, theme |-> "", tone |-> "", tech |-> "",
   prev_lessons |-> <<>>, rewrites |-> 0]

DraftLocalsInit ==
  /\ theme = NoTheme /\ tech = "" /\ prompt = NoPrompt /\ attempt = 0
  /\ content = NoContent /\ post = EmptyText /\ responses = <<>> /\ verdicts = <<>>

PublishLocalsInit ==
  /\ draft = NoFile /\ urn = "" /\ image_path = NoPath /\ media_urn = NoUrn
  /\ status = "" /\ elapsed = 0 /\ answer = NoAnswer /\ commentary = EmptyText
  /\ image_asset = NoUrn /\ postCalls = 0

Init ==
  /\ stateFile = NoFile /\ draftFile = NoFile /\ images = {} /\ posted = 0
  /\ draftPosts = 0
  /\ pc = "idle" /\ outcome = "" /\ before = NoSnapshot
  /\ DraftLocalsInit /\ PublishLocalsInit

(***************************************************************************)
(* The images folder is filled by the operator between runs.               *)
(***************************************************************************)
AddImage ==
  /\ pc = "idle"
  /\ Cardinality(images) < MaxImages
  /\ \E f \in ImageNames \ images : images' = images \cup {f}
  /\ UNCHANGED <<stateFile, draftFile, posted, draftPosts, pc, outcome, before, draftLocals, publishLocals>>

(***************************************************************************)
(* DRAFT MODE                                                              *)
(***************************************************************************)
build_prompt(act, episode, th, tc, prev_lessons) ==
  [act |-> act.name, episode |-> episode, theme |-> th.type, tone |-> th.tone,
   tech |-> tc, prev_lessons |-> prev_lessons, rewrites |-> 0]

\* run_draft_mode up to the first generation call
RunDraftMode(picks, techPicks) ==
  /\ pc = "idle"
  /\ LET state == LoadState(stateFile)
         act == ACTS[state.act_index + 1]
     IN  \E sel \in select_theme_and_tech(state, picks, techPicks) :
           /\ theme' = sel[1]
           /\ tech' = sel[2]
           /\ prompt' = build_prompt(act, state.episode, sel[1], sel[2],
                                     LastN(state.previous_lessons, LessonWindow))
  /\ attempt' = 0 /\ content' = NoContent /\ post' = EmptyText
  /\ responses' = <<>> /\ verdicts' = <<>>
  /\ before' = Snapshot /\ outcome' = "" /\ pc' = "generate"
  /\ UNCHANGED <<stateFile, draftFile, images, posted, draftPosts, publishLocals>>

\* one generation call of generate_with_review: the call, json.loads, clean_text
GenerateContent(answers) ==
  /\ pc = "generate"
  /\ \E r \in answers :
       /\ responses' = Append(responses, r)
       /\ IF r.parsed /\ r.has_text
          THEN /\ content' = r
               /\ post' = clean_text(r.post_text)
               /\ pc' = "review" /\ outcome' = outcome
          ELSE \* json.loads or content["post_text"] raises: the run dies
               /\ pc' = "draft_done" /\ outcome' = "raised"
               /\ UNCHANGED <<content, post>>
  /\ UNCHANGED <<stateFile, draftFile, images, posted, draftPosts, before, theme, tech, prompt,
                 attempt, verdicts, publishLocals>>

\* review_resp.strip() == "PASS_9_PLUS"
Passes(review_resp) == review_resp = "PASS_9_PLUS"

\* faulty variant of AnotherAttempt: one iteration too many
AnotherAttemptOffByOne(n) == n < MaxAttempts

\* for attempt in range(2): is there another iteration after this one
AnotherAttempt(n) == n + 1 < MaxAttempts

\* faulty variant of AcceptedContent: the generated text is kept
AcceptedContentRaw(c, p) == c

\* content["post_text"] = post; return content
AcceptedContent(c, p) == [c EXCEPT !.post_text = p]

\* the content saved by run_draft_mode: meta_theme and meta_tech are added
DraftOf(c, th, tc) ==
  [post_text |-> c.post_text, lesson_extracted |-> c.lesson_extracted,
   meta_theme |-> th.type, meta_tech |-> tc]

\* one editor call of generate_with_review and what follows it: the return of the
\* accepted content, the next iteration, or the fall through after the last one;
\* on a return, the rest of run_draft_mode (save_json(DRAFT_FILE, content))
EditorReview ==
  /\ pc = "review"
  /\ \E review_resp \in EditorAnswers :
       /\ verdicts' = Append(verdicts, review_resp)
       /\ IF review_resp = EditorRaised
          THEN /\ pc' = "draft_done" /\ outcome' = "raised"
               /\ UNCHANGED <<draftFile, draftPosts, content, attempt, prompt>>
          ELSE IF Passes(review_resp)
          THEN /\ content' = AcceptedContent(content, post)
               /\ draftFile' = File(DraftOf(content', theme, tech)) /\ draftPosts' = 0
               /\ pc' = "draft_done" /\ outcome' = "returned"
               /\ UNCHANGED <<attempt, prompt>>
          ELSE IF AnotherAttempt(attempt)
          THEN /\ prompt' = [prompt EXCEPT !.rewrites = @ + 1]
               /\ attempt' = attempt + 1
               /\ pc' = "generate" /\ outcome' = outcome
               /\ UNCHANGED <<draftFile, draftPosts, content>>
          ELSE \* "Fallback to the last attempt if it fails twice": return content
               /\ prompt' = [prompt EXCEPT !.rewrites = @ + 1]
               /\ draftFile' = File(DraftOf(content, theme, tech)) /\ draftPosts' = 0
               /\ pc' = "draft_done" /\ outcome' = "returned"
               /\ UNCHANGED <<attempt, content>>
  /\ UNCHANGED <<stateFile, images, posted, before, theme, tech, post, responses,
                 publishLocals>>

(***************************************************************************)
(* PUBLISH MODE                                                            *)
(***************************************************************************)
\* the paths get_image_from_folder() may return: os.listdir order is arbitrary
get_image_from_folder(folder) == IF folder = {} THEN {NoPath} ELSE folder

\* faulty variant of NoDraft: the missing draft goes unnoticed
NoDraftIgnored(d) == FALSE

\* "if not draft"
NoDraft(d) == d = NoFile

\* run_publish_mode up to the identity lookup
RunPublishMode(maxPosts) ==
  /\ pc = "idle"
  /\ posted < maxPosts
  /\ draft' = draftFile
  /\ urn' = "" /\ image_path' = NoPath /\ media_urn' = NoUrn /\ status' = ""
  /\ elapsed' = 0 /\ answer' = NoAnswer /\ commentary' = EmptyText
  /\ image_asset' = NoUrn /\ postCalls' = 0
  /\ before' = Snapshot
  /\ IF NoDraft(draftFile)
     THEN pc' = "publish_done" /\ outcome' = "returned"   \* "No draft found!"
     ELSE pc' = "whoami" /\ outcome' = ""
  /\ UNCHANGED <<stateFile, draftFile, images, posted, draftPosts, draftLocals>>

\* get_user_urn(), the "Invalid Token" exit, get_image_from_folder()
GetUserUrn ==
  /\ pc = "whoami"
  /\ \E found \in BOOLEAN :
       IF found
       THEN /\ urn' = "sub"
            /\ \E path \in get_image_from_folder(images) :
                 /\ image_path' = path
                 /\ pc' = IF path = NoPath THEN "post" ELSE "upload"
            /\ outcome' = outcome
       ELSE /\ urn' = ""
            /\ pc' = "publish_done" /\ outcome' = "exit1"
            /\ UNCHANGED image_path
  /\ UNCHANGED <<stateFile, draftFile, images, posted, draftPosts, before, draftLocals, draft,
                 media_urn, status, elapsed, answer, commentary, image_asset, postCalls>>

\* faulty variant of ImageOutcome: the handle of a failed image is kept
ImageOutcomeKept(handle, ready) == handle

\* "if media_urn and poll_image_status(media_urn)" ... "else: media_urn = None"
ImageOutcome(handle, ready) == IF handle # NoUrn /\ ready THEN handle ELSE NoUrn

\* upload_image_to_linkedin(urn, image_path): the handle, or None on any exception
UploadImage ==
  /\ pc = "upload"
  /\ \E image_urn \in {NoUrn, "urn:li:image:1"} :
       IF image_urn = NoUrn
       THEN media_urn' = ImageOutcome(image_urn, FALSE) /\ pc' = "post"
       ELSE media_urn' = image_urn /\ pc' = "poll"
  /\ elapsed' = 0
  /\ UNCHANGED <<stateFile, draftFile, images, posted, draftPosts, outcome, before, draftLocals,
                 draft, urn, image_path, status, answer, commentary, image_asset, postCalls>>

\* while time.time() < deadline
PollContinues(t) == t < PollDeadline

\* one iteration of the loop of poll_image_status and the test that follows it; when
\* the function returns, the branch of run_publish_mode that uses its result
PollImageStatus ==
  /\ pc = "poll"
  /\ \E st \in PollAnswers, took \in {0, PollRequestTimeout} :
       /\ status' = st
       /\ IF st = "AVAILABLE"
          THEN /\ media_urn' = ImageOutcome(media_urn, TRUE)
               /\ pc' = "post" /\ elapsed' = 0
          ELSE IF st \in {"FAILED", "ERROR"}
          THEN /\ media_urn' = ImageOutcome(media_urn, FALSE)
               /\ pc' = "post" /\ elapsed' = 0
          ELSE IF PollContinues(elapsed + took + PollSleep)
          THEN /\ elapsed' = elapsed + took + PollSleep
               /\ media_urn' = media_urn /\ pc' = "poll"
          ELSE \* the deadline has passed: return False
               /\ elapsed' = 0
               /\ media_urn' = ImageOutcome(media_urn, FALSE) /\ pc' = "post"
  /\ UNCHANGED <<stateFile, draftFile, images, posted, draftPosts, outcome, before, draftLocals,
                 draft, urn, image_path, answer, commentary, image_asset, postCalls>>

\* "if len(text) > 2800: text = text[:2797] + '...'"
Commentary(text) ==
  IF TLen(text) > PostLimit
  THEN LET kept == Take(text, TruncKeep) IN Txt(kept.pad, kept.body \o Ellipsis)
  ELSE text

\* faulty variant of PostSucceeded: any answer of the server counts as a success
PostSucceededAny(a) == TRUE

\* faulty variant of PostSucceeded: only a rejection counts as a failure
PostSucceededUnlessRejected(a) == a.status_code # 403

\* "if resp.status_code == 201: return True"
PostSucceeded(a) == a.status_code = HttpCreated

\* faulty variant of ActProgression: the act index is not wrapped
ActProgressionNoWrap(state) ==
  IF state.episode > ACTS[state.act_index + 1].max_episodes
  THEN [state EXCEPT !.act_index = @ + 1, !.episode = 1]
  ELSE state

\* faulty variant of ActProgression: the act ends one episode early
ActProgressionEarly(state) ==
  IF state.episode >= ACTS[state.act_index + 1].max_episodes
  THEN [state EXCEPT !.act_index = (@ + 1) % Len(ACTS), !.episode = 1]
  ELSE state

\* faulty variant of ActProgression: the last act does not wrap to the first
ActProgressionLastActStays(state) ==
  IF state.episode > ACTS[state.act_index + 1].max_episodes
  THEN [state EXCEPT !.act_index = Min(@ + 1, Len(ACTS) - 1), !.episode = 1]
  ELSE state

\* "Handle Act Progression"
ActProgression(state) ==
  IF state.episode > ACTS[state.act_index + 1].max_episodes
  THEN [state EXCEPT !.act_index = (@ + 1) % Len(ACTS), !.episode = 1]
  ELSE state

\* faulty variant of TrimHistory: the history is not trimmed
TrimHistoryNone(history, entry) == Append(history, entry)

\* append and "Trim History"
TrimHistory(history, entry) == LastN(Append(history, entry), HistoryKeep)

\* "UPDATE STATE (Commit Rotation & Episode)": the state that is saved
CommitState(state, d) ==
  ActProgression(
    [state EXCEPT !.previous_lessons = Append(@, d.lesson_extracted),
                  !.episode = @ + 1,
                  !.last_themes = TrimHistory(@, d.meta_theme),
                  !.last_tech = TrimHistory(@, d.meta_tech)])

\* post_to_linkedin(urn, draft["post_text"], media_urn) and the branch of
\* run_publish_mode that follows it: commit and cleanup, or exit(1)
PostToLinkedin ==
  /\ pc = "post"
  /\ commentary' = Commentary(draft[1].post_text)
  /\ image_asset' = media_urn
  /\ postCalls' = postCalls + 1
  /\ pc' = "publish_done"
  /\ \E a \in PostAnswers :
       /\ answer' = a
       /\ IF a.raised
          THEN \* requests.post raises and nothing catches it
               /\ outcome' = "raised"
               /\ UNCHANGED <<stateFile, draftFile, images, posted, draftPosts>>
          ELSE IF PostSucceeded(a)
          THEN /\ posted' = posted + 1
               /\ IF draft[1].lesson_extracted = Absent
                  THEN \* draft["lesson_extracted"] raises KeyError before save_json
                       /\ outcome' = "raised"
                       /\ draftPosts' = draftPosts + 1
                       /\ UNCHANGED <<stateFile, draftFile, images>>
                  ELSE /\ stateFile' = File(CommitState(LoadState(stateFile), draft[1]))
                       /\ draftFile' = NoFile /\ draftPosts' = 0
                       /\ images' = images \ {image_path}
                       /\ outcome' = "returned"
          ELSE /\ outcome' = "exit1"
               /\ UNCHANGED <<stateFile, draftFile, images, posted, draftPosts>>
  /\ UNCHANGED <<before, draftLocals, draft, urn, image_path, media_urn, status, elapsed>>

(***************************************************************************)
(* The process ends; its locals are gone.                                  *)
(***************************************************************************)
ProcessExit ==
  /\ pc \in {"draft_done", "publish_done"}
  /\ pc' = "idle" /\ outcome' = "" /\ before' = NoSnapshot
  /\ theme' = NoTheme /\ tech' = "" /\ prompt' = NoPrompt /\ attempt' = 0
  /\ content' = NoContent /\ post' = EmptyText /\ responses' = <<>> /\ verdicts' = <<>>
  /\ draft' = NoFile /\ urn' = "" /\ image_path' = NoPath /\ media_urn' = NoUrn
  /\ status' = "" /\ elapsed' = 0 /\ answer' = NoAnswer /\ commentary' = EmptyText
  /\ image_asset' = NoUrn /\ postCalls' = 0
  /\ UNCHANGED <<stateFile, draftFile, images, posted, draftPosts>>

(***************************************************************************)
(* Specifications.  Spec explores every answer of the collaborators over a *)
(* few posts, random.choice taking the first entry.  SpecCycle follows the *)
(* rotation through all the acts: as Spec, with well-formed generation     *)
(* answers.  SpecSelect explores the theme choices of random.choice over a *)
(* few posts, with well-formed generation answers and an empty image       *)
(* folder.                                                                 *)
(***************************************************************************)
Next ==
  \/ AddImage
  \/ RunDraftMode(1, 1)
  \/ GenerateContent(Responses)
  \/ EditorReview
  \/ RunPublishMode(MaxPublishes)
  \/ GetUserUrn
  \/ UploadImage
  \/ PollImageStatus
  \/ PostToLinkedin
  \/ ProcessExit

Spec == Init /\ [][Next]_vars

NextCycle ==
  \/ AddImage
  \/ RunDraftMode(1, 1)
  \/ GenerateContent(CycleResponses)
  \/ EditorReview
  \/ RunPublishMode(MaxCyclePosts)
  \/ GetUserUrn
  \/ UploadImage
  \/ PollImageStatus
  \/ PostToLinkedin
  \/ ProcessExit

SpecCycle == Init /\ [][NextCycle]_vars

NextSelect ==
  \/ RunDraftMode(MaxPick, 1)
  \/ GenerateContent(CycleResponses)
  \/ EditorReview
  \/ RunPublishMode(MaxSelectPosts)
  \/ GetUserUrn
  \/ PostToLinkedin
  \/ ProcessExit

SpecSelect == Init /\ [][NextSelect]_vars

(***************************************************************************)
(* SpecSelector applies select_theme_and_tech, with every choice of        *)
(* random.choice, to RotationStates drawn from bounded histories.          *)
(***************************************************************************)
ThemeTypes == {THEMES[i].type : i \in DOMAIN THEMES}
AllTopics ==
  UNION {{TECH_FOCUS_AREAS[c][i] : i \in DOMAIN TECH_FOCUS_AREAS[c]} :
           c \in DOMAIN TECH_FOCUS_AREAS}
\* an index bound no list of the selector exceeds
AllPicks == Len(THEMES) + Cardinality(AllTopics)

SeqsUpTo(S, n) == UNION {[1..k -> S] : k \in 0..n}

SelectorStates ==
  {[DefaultState EXCEPT !.last_themes = h] : h \in SeqsUpTo(ThemeTypes, MaxThemeHistory)}
  \cup
  {[DefaultState EXCEPT !.last_tech = h] : h \in SeqsUpTo(AllTopics, MaxTechHistory)}

InitSelector ==
  /\ stateFile \in {File(state) : state \in SelectorStates}
  /\ draftFile = NoFile /\ images = {} /\ posted = 0 /\ draftPosts = 0
  /\ pc = "idle" /\ outcome = "" /\ before = NoSnapshot
  /\ DraftLocalsInit /\ PublishLocalsInit

NextSelector == RunDraftMode(AllPicks, AllPicks)

SpecSelector == InitSelector /\ [][NextSelector]_vars

(***************************************************************************)
(* Properties.                                                             *)
(***************************************************************************)
InDraftRun == pc \in {"generate", "review", "draft_done"}

\* the post-creation call of this run was made and its answer was HTTP 201
PostConfirmed == postCalls > 0 /\ ~answer.raised /\ answer.status_code = 201

\* the publish run has ended without a confirmed post creation
PublishFailed == pc = "publish_done" /\ draft # NoFile /\ ~PostConfirmed

\* (act_index, episode) of the persisted RotationState
Pair(file) == <<LoadState(file).act_index, LoadState(file).episode>>

\* the editor's answer is a verdict other than PASS_9_PLUS
Rejects(v) == v # "PASS_9_PLUS" /\ v # EditorRaised

\* C1: a publish run whose identity lookup fails or whose post-creation call
\* does not return success leaves the persisted RotationState, the draft file
\* and the image folder exactly as they were when the run started, and the
\* draft file still exists.
C1_FailedPublishChangesNothing ==
  PublishFailed =>
    /\ stateFile = before.stateFile
    /\ draftFile = before.draftFile /\ draftFile # NoFile
    /\ images = before.images

\* C1 witness: a 403 on the post-creation call of a run that found an image,
\* with a RotationState already persisted by an earlier publish.
C1_Witness ==
  /\ pc = "publish_done" /\ postCalls = 1 /\ answer = Answer(403)
  /\ stateFile # NoFile /\ image_path # NoPath /\ image_path \in images
  /\ draftFile # NoFile

\* C2: the persisted RotationState changes only in the step of a publish run
\* that receives HTTP 201 from the post-creation call, and a draft run, however
\* it ends, leaves it as it was when the run started.
C2_StateWrittenOnlyAfterConfirmation ==
  /\ [][stateFile' # stateFile =>
          /\ pc = "post"
          /\ ~answer'.raised /\ answer'.status_code = 201
          /\ posted' = posted + 1]_vars
  /\ [](InDraftRun => stateFile = before.stateFile)

\* C2 witness: a draft run has stored a draft while a RotationState is persisted.
C2_Witness ==
  /\ pc = "draft_done" /\ outcome = "returned"
  /\ stateFile # NoFile /\ draftFile # before.draftFile

\* one step of advance, as the claim states it
ClaimedAdvance(pair) ==
  IF pair[2] < ACTS[pair[1] + 1].max_episodes
  THEN <<pair[1], pair[2] + 1>>
  ELSE <<(pair[1] + 1) % Len(ACTS), 1>>

C4_PairInRange ==
  LET state == LoadState(stateFile) IN
    /\ 0 <= state.act_index /\ state.act_index < Len(ACTS)
    /\ 1 <= state.episode
    /\ state.episode <= ACTS[state.act_index + 1].max_episodes

\* C4 witness: the persisted state is at the last episode of the last act.
C4_Witness ==
  /\ stateFile # NoFile
  /\ Pair(stateFile) = <<5, 6>>

\* C5: a draft run whose two editor verdicts are both other than PASS_9_PLUS
\* ends with a non-zero exit and stores no draft.
C5_RejectedTwiceStoresNoDraft ==
  (/\ pc = "draft_done" /\ Len(verdicts) = 2
   /\ Rejects(verdicts[1]) /\ Rejects(verdicts[2]))
  => (outcome # "returned" /\ draftFile = before.draftFile)

\* C6: a draft run never makes a third generation call or a third editor call,
\* and a run whose every editor verdict is a rejection ends after exactly 2
\* generation calls.
C6_TwoAttemptsAtMost ==
  /\ Len(responses) <= 2 /\ Len(verdicts) <= 2
  /\ (/\ pc = "draft_done" /\ verdicts # <<>>
      /\ \A i \in DOMAIN verdicts : Rejects(verdicts[i]))
     => Len(responses) = 2

\* C6 witness: the editor answered FAIL twice and the loop is over.
C6_Witness ==
  pc = "draft_done" /\ verdicts = <<"FAIL", "FAIL">> /\ Len(responses) = 2

\* C7: when the editor rejects the first attempt and answers PASS_9_PLUS on the
\* second, the returned and stored draft has the sanitized text and the lesson
\* of the second generation.
C7_SecondAttemptReturned ==
  (/\ pc = "draft_done" /\ Len(verdicts) = 2
   /\ Rejects(verdicts[1]) /\ verdicts[2] = "PASS_9_PLUS")
  => /\ outcome = "returned"
     /\ content.post_text = clean_text(responses[2].post_text)
     /\ content.lesson_extracted = responses[2].lesson_extracted
     /\ draftFile # NoFile
     /\ draftFile[1].post_text = clean_text(responses[2].post_text)
     /\ draftFile[1].lesson_extracted = responses[2].lesson_extracted

\* C7 witness: two different generations, the second one accepted, whose
\* sanitized text differs from the generated text.
C7_Witness ==
  /\ pc = "draft_done" /\ verdicts = <<"FAIL", "PASS_9_PLUS">>
  /\ responses = <<Doc(StoryA, "l1"), Doc(StoryB, "l2")>>
  /\ draftFile # NoFile
  /\ draftFile[1].post_text # StoryB /\ draftFile[1].lesson_extracted = "l2"

\* C8: the submitted post body has at most 2800 characters, and when the draft
\* text with its closing hashtag line is longer than that, the submitted body
\* still ends with that line.
C8_BodyKeepsSuffix ==
  (/\ pc = "publish_done" /\ postCalls > 0
   /\ EndsWith(draft[1].post_text, Hashtags))
  => (TLen(commentary) <= 2800 /\ EndsWith(commentary, Hashtags))

\* C9: when an image was found and its upload failed, its status became FAILED
\* or ERROR, or the deadline passed without AVAILABLE, the poll loop is left
\* (it runs only before the deadline), the media handle is dropped, and the run
\* goes on to make the post-creation call without media.
C9_ImageFailureDegradesToText ==
  /\ pc = "poll" => elapsed < 60
  /\ (pc \in {"post", "publish_done"} /\ image_path # NoPath /\ status # "AVAILABLE")
       => media_urn = NoUrn
  /\ (pc = "publish_done" /\ image_path # NoPath)
       => (postCalls = 1 /\ (status # "AVAILABLE" => image_asset = NoUrn))

\* C9 witness: the image never became AVAILABLE before the deadline and the
\* post was created without media.
C9_Witness ==
  /\ pc = "publish_done" /\ outcome = "returned"
  /\ image_path # NoPath /\ status = "PROCESSING"
  /\ postCalls = 1 /\ image_asset = NoUrn

\* C10: a publish run reports a failure after an HTTP 5xx answer or a transport
\* exception of the post-creation call only when the call has been made three
\* times (the first call and 2 retries).
C10_TransientFailureIsRetried ==
  (/\ pc = "publish_done" /\ postCalls > 0 /\ outcome # "returned"
   /\ (answer.raised \/ answer.status_code >= 500))
  => postCalls = 3

\* the last n entries of a history, as the claims state them
Recent(history, n) == {history[i] : i \in {j \in DOMAIN history : j > Len(history) - n}}

\* the topics of the tech categories a theme allows
PoolOf(th) ==
  UNION {{TECH_FOCUS_AREAS[th.allowed_tech[c]][i] :
            i \in DOMAIN TECH_FOCUS_AREAS[th.allowed_tech[c]]} :
           c \in DOMAIN th.allowed_tech}

\* C11: for every RotationState the selector returns something, and the theme
\* it returns is one of THEMES whose type is not among the last 3 entries of
\* last_themes, unless those entries exclude every theme.
C11_ThemeOutsideLastThree ==
  /\ pc = "idle" => select_theme_and_tech(LoadState(stateFile), AllPicks, AllPicks) # {}
  /\ pc = "generate" =>
       LET recent == Recent(LoadState(stateFile).last_themes, 3) IN
         /\ \E i \in DOMAIN THEMES : theme = THEMES[i]
         /\ (ThemeTypes \ recent # {}) => theme.type \notin recent

\* C11 witness: the theme returned is the one recorded four posts ago, the three
\* recorded since being excluded.
C11_Witness ==
  LET history == LoadState(stateFile).last_themes IN
    /\ pc = "generate" /\ Len(history) = 4
    /\ Cardinality(Recent(history, 3)) = 3
    /\ theme.type = history[1]

\* C17: for every RotationState the tech the selector returns is a topic of a
\* tech category the returned theme allows, and it is among the last 2 entries
\* of last_tech only when every topic of that theme's pool is among them.
C17_TechFromPoolOutsideLastTwo ==
  pc = "generate" =>
    LET recent == Recent(LoadState(stateFile).last_tech, 2) IN
      /\ tech \in PoolOf(theme)
      /\ tech \in recent => PoolOf(theme) \subseteq recent

\* C17 witness: the last 2 entries of last_tech are the whole pool of the
\* returned theme, and a topic of the pool is returned all the same.
C17_Witness ==
  /\ pc = "generate"
  /\ tech \in Recent(LoadState(stateFile).last_tech, 2)
  /\ Len(LoadState(stateFile).last_tech) = 3
  /\ LoadState(stateFile).last_tech[1] \notin PoolOf(theme)

\* the last 5 entries of a history followed by a new entry, as the claim states it
ClaimedLastFive(history, entry) ==
  LET full == history \o <<entry>>
      n == IF Len(full) < 5 THEN Len(full) ELSE 5
  IN  [i \in 1..n |-> full[Len(full) - n + i]]

C13_DraftPostedAtMostOnce == draftPosts <= 1

\* C14: a publish run started with no pending draft ends in its first step,
\* before any remote call, with a clean return, the RotationState, the draft
\* file, the image folder and the remote feed unchanged.
C14_NoDraftNoCalls ==
  [][(pc = "idle" /\ draftFile = NoFile /\ pc' \notin {"idle", "generate"}) =>
       /\ pc' = "publish_done" /\ outcome' = "returned"
       /\ urn' = "" /\ media_urn' = NoUrn /\ postCalls' = 0
       /\ UNCHANGED <<stateFile, draftFile, images, posted>>]_vars

\* C14 witness: such a run has ended, with a RotationState persisted and an
\* image waiting in the folder.
C14_Witness ==
  /\ pc = "publish_done" /\ draft = NoFile /\ outcome = "returned"
  /\ stateFile # NoFile /\ images # {}

\* episodes of one round through all the acts
RECURSIVE EpisodesFrom(_)
EpisodesFrom(a) ==
  IF a > Len(ACTS) THEN 0 ELSE ACTS[a].max_episodes + EpisodesFrom(a + 1)

\* the k-th pair (from 0) of the list: the acts in list order, from act a on
RECURSIVE PairAt(_, _)
PairAt(k, a) ==
  IF k < ACTS[a + 1].max_episodes THEN <<a, k + 1>>
  ELSE PairAt(k - ACTS[a + 1].max_episodes, a + 1)

\* successful publishes so far: each one appends a lesson, none is ever removed
Commits == Len(LoadState(stateFile).previous_lessons)

\* C15: after n successful publishes the pair is the (n mod 44)-th pair of the
\* list of all pairs, the acts taken in list order: every pair is visited in
\* turn, the last act wraps to the first, and the round starts again.
C15_PairsVisitedInOrderCyclically ==
  Pair(stateFile) = PairAt(Commits % EpisodesFrom(1), 0)

\* C15 witness: the second round through all the acts is complete.
C15_Witness ==
  Commits = 2 * EpisodesFrom(1) /\ Pair(stateFile) = <<0, 1>>

\* C16: when a publish run found an image and posted without media, the image
\* file is still in the folder when the run ends.
C16_UnusedImageKept ==
  (pc = "publish_done" /\ image_path # NoPath /\ image_asset = NoUrn)
  => image_path \in images

\* the answer cannot be parsed as a document with post_text and lesson_extracted
Malformed(r) == ~r.parsed \/ ~r.has_text \/ r.lesson_extracted = Absent

\* C18: a generation answer that is no document with post_text and
\* lesson_extracted ends the draft run at once: it is the last answer, no editor
\* call follows it, the run fails and the stored draft is as it was.
C18_MalformedAnswerIsFatal ==
  \A i \in DOMAIN responses :
    Malformed(responses[i]) =>
      /\ i = Len(responses) /\ Len(verdicts) < i
      /\ pc = "draft_done" /\ outcome = "raised"
      /\ draftFile = before.draftFile

\* C19: a draft stored by a draft run has the sanitized form of the text of the
\* last generation as its post_text.
C19_StoredDraftIsSanitized ==
  (pc = "draft_done" /\ outcome = "returned") =>
    /\ draftFile # NoFile
    /\ draftFile[1].post_text = clean_text(responses[Len(responses)].post_text)

\* C20: in last_themes, the themes recorded by successful publishes in order,
\* no theme equals any of the three recorded before it.
C20_NoThemeRepeatedWithinFour ==
  LET history == LoadState(stateFile).last_themes IN
    \A i, j \in DOMAIN history :
      (i < j /\ j - i <= 3) => history[i] # history[j]

\* C20 witness: a fifth successful publish has recorded the theme of the
\* first one again, after three others, and random.choice did not always take
\* the first eligible theme.
C20_Witness ==
  LET history == LoadState(stateFile).last_themes IN
    /\ pc = "publish_done" /\ outcome = "returned" /\ draft # NoFile
    /\ Len(history) = 5 /\ history[5] = draft[1].meta_theme
    /\ history[5] = history[1]
    /\ history[1] # THEMES[1].type

====
